---- MODULE Spec2Model ----
(***************************************************************************)
(* The options pay-off simulator (src/options_simulator.py, and the same   *)
(* pipeline run once as a script in src/options_simulation.py).            *)
(*                                                                         *)
(* State: the values of the seven Panel widgets, the pane the dashboard    *)
(* displays, and a record of the last call of create_payoff_plot (the      *)
(* contents of its local arrays at each stage of the pipeline).  ref is a  *)
(* history variable: the inputs and the output of one earlier computation. *)
(*                                                                         *)
(* Numbers: the code computes in float64.  The model computes in exact     *)
(* fixed point with resolution 0.01: a widget holds whole units            *)
(* (dollars, shares), every array element is a count of hundredths.        *)
(* Floating-point rounding is not modelled.                                *)
(*                                                                         *)
(* numpy arrays are heap objects: a frame holds a heap (a sequence of      *)
(* arrays), a dict maps a name to the index of its array, and the in-place *)
(* operators -= and *= rewrite the array they are applied to, whoever else *)
(* refers to it.                                                           *)
(***************************************************************************)
EXTENDS Integers, Sequences, FiniteSets

VARIABLES strike_price_input, premium_input, basis_input, contract_size_input,
          per_share_input, show_profit_input, strategies_input,
          pane, call, ref

vars == <<strike_price_input, premium_input, basis_input, contract_size_input,
          per_share_input, show_profit_input, strategies_input,
          pane, call, ref>>

widgets == <<strike_price_input, premium_input, basis_input, contract_size_input,
             per_share_input, show_profit_input, strategies_input>>

----------------------------------------------------------------------------
(* Bounds of the model: the values a user types into the widgets.          *)
MaxStrike == 4
MaxContract == 1
MaxReq == 2

(* The widgets' initial values. *)
DefaultStrike == 420
DefaultPremium == 10
DefaultBasis == 420
DefaultContractSize == 100
DefaultStrategies == <<"Long Stock", "Covered Call", "Cash Secured Put">>

(* The options of the MultiChoice widget. *)
Options ==
    {"Long Stock", "Naked Short Call", "Covered Call", "Naked Short Put", "Cash Secured Put"}

(* A numeric widget holds a number or None (the field was cleared). *)
None == <<>>
Some(v) == <<v>>
IsNone(x) == x = <<>>
Val(x) == x[1]

(* A float value of v whole units, in hundredths. *)
Fx(v) == v * 100

----------------------------------------------------------------------------
(* numpy *)

(* np.arange(start, stop, step): ceil((stop - start) / step) elements,     *)
(* start + i * step.                                                       *)
Arange(start, stop, step) ==
    LET n == IF stop > start THEN (stop - start + step - 1) \div step ELSE 0
    IN  [i \in 1..n |-> start + (i - 1) * step]

(* The end of the grid's span, without the tolerance. *)
GridStopExact(strike_price) == strike_price * 125

(* strike_price * 1.25 + 0.01 *)
GridStop(strike_price) == strike_price * 125 + 1

(* stock_prices = np.arange(strike_price * 0.75, strike_price * 1.25 + 0.01, 1.0) *)
StockPrices(strike_price) == Arange(strike_price * 75, GridStop(strike_price), 100)

(* A reference to the array itself: no copy is made. *)
ViewArray(heap, a) == [heap |-> heap, arr |-> a]

(* a.copy(): a new array with the contents of a. *)
CopyArray(heap, a) == [heap |-> Append(heap, heap[a]), arr |-> Len(heap) + 1]

(* An expression's result is a new array. *)
NewArray(heap, contents) == [heap |-> Append(heap, contents), arr |-> Len(heap) + 1]

(* a -= x, in place. *)
ISub(heap, a, x) == [heap EXCEPT ![a] = [i \in 1..Len(heap[a]) |-> heap[a][i] - x]]

(* a *= x, in place. *)
IMul(heap, a, x) == [heap EXCEPT ![a] = [i \in 1..Len(heap[a]) |-> heap[a][i] * x]]

(* a - b instead of a + b. *)
ArrayDiff(x, y) == [i \in 1..Len(x) |-> x[i] - y[i]]

(* a + b, element-wise. *)
ArraySum(x, y) == [i \in 1..Len(x) |-> x[i] + y[i]]

----------------------------------------------------------------------------
(* A dict keeps its keys in insertion order: a sequence of (name, array). *)

DictHas(d, k) == \E i \in 1..Len(d) : d[i].name = k

DictGet(d, k) == d[CHOOSE i \in 1..Len(d) : d[i].name = k].arr

(* A new key goes to the front. *)
DictSetFront(d, k, a) ==
    IF DictHas(d, k)
    THEN [i \in 1..Len(d) |-> IF d[i].name = k THEN [name |-> k, arr |-> a] ELSE d[i]]
    ELSE <<[name |-> k, arr |-> a]>> \o d

(* d[k] = a: an existing key keeps its place, a new key goes to the end. *)
DictSet(d, k, a) ==
    IF DictHas(d, k)
    THEN [i \in 1..Len(d) |-> IF d[i].name = k THEN [name |-> k, arr |-> a] ELSE d[i]]
    ELSE Append(d, [name |-> k, arr |-> a])

(* k in strategies_to_plot *)
InList(k, list) == \E i \in 1..Len(list) : list[i] = k

----------------------------------------------------------------------------
(* The pay-off formulas, per share, on an array of prices in hundredths.   *)

(* np.where(stock_prices <= strike_price, premium, premium - (stock_prices - strike_price)) *)
NakedShortCallPayoff(prices, strike_price, premium) ==
    [i \in 1..Len(prices) |->
        IF prices[i] <= Fx(strike_price)
        THEN Fx(premium)
        ELSE Fx(premium) - (prices[i] - Fx(strike_price))]

(* np.where(stock_prices >= strike_price, premium, premium - (strike_price - stock_prices)) *)
NakedShortPutPayoff(prices, strike_price, premium) ==
    [i \in 1..Len(prices) |->
        IF prices[i] >= Fx(strike_price)
        THEN Fx(premium)
        ELSE Fx(premium) - (Fx(strike_price) - prices[i])]

(* The put without the np.where: the intrinsic value charged at every price. *)
CashSecuredPutNoWhere(prices, strike_price, premium) ==
    [i \in 1..Len(prices) |-> Fx(premium) - (Fx(strike_price) - prices[i])]

(* The second copy of the put formula. *)
CashSecuredPutPayoff(prices, strike_price, premium) ==
    [i \in 1..Len(prices) |->
        IF prices[i] >= Fx(strike_price)
        THEN Fx(premium)
        ELSE Fx(premium) - (Fx(strike_price) - prices[i])]

----------------------------------------------------------------------------
(* create_payoff_plot, stage by stage.  A frame is the function's locals,  *)
(* [heap, stock_prices, strategies], and a log of what they held: the      *)
(* contents of the grid after each stage, and the series after the pay-off *)
(* calculations (before the profit and scale transforms).                  *)

(* The series of a frame, by name, in the dict's order. *)
Series(f) ==
    [i \in 1..Len(f.strategies) |->
        [name |-> f.strategies[i].name, y |-> f.heap[f.strategies[i].arr]]]

(* The end of a stage: the grid's contents are logged. *)
Logged(f) == [f EXCEPT !.grid = Append(f.grid, f.heap[f.stock_prices])]

(* The end of the pay-off calculations: the series are logged. *)
LoggedValue(f) == [f EXCEPT !.value = Series(f)]

(* stock_prices = np.arange(...); strategies = {} *)
GenerateGrid(strike_price) ==
    [heap |-> <<StockPrices(strike_price)>>, stock_prices |-> 1, strategies |-> <<>>,
     grid |-> <<>>, value |-> <<>>]

(* strategies[k] = c, c a new array (or a reference). *)
Put(f, k, c) == [f EXCEPT !.heap = c.heap, !.strategies = DictSet(f.strategies, k, c.arr)]

(* strategies["Long Stock"] = stock_prices.copy() *)
SetLongStock(f) == Put(f, "Long Stock", CopyArray(f.heap, f.stock_prices))

(* strategies["Naked Short Call"] = np.where(...) *)
SetNakedShortCall(f, strike_price, premium) ==
    Put(f, "Naked Short Call",
        NewArray(f.heap, NakedShortCallPayoff(f.heap[f.stock_prices], strike_price, premium)))

(* if "Long Stock" in strategies_to_plot: ... *)
LongStockBlock(f, strategies_to_plot) ==
    IF InList("Long Stock", strategies_to_plot) THEN SetLongStock(f) ELSE f

(* if "Naked Short Call" in strategies_to_plot: ... *)
NakedShortCallBlock(f, strike_price, premium, strategies_to_plot) ==
    IF InList("Naked Short Call", strategies_to_plot)
    THEN SetNakedShortCall(f, strike_price, premium)
    ELSE f

(* if "Long Stock" not in strategies: ... *)
EnsureLongStock(f) ==
    IF ~DictHas(f.strategies, "Long Stock") THEN SetLongStock(f) ELSE f

(* if "Naked Short Call" not in strategies: ... *)
EnsureNakedShortCall(f, strike_price, premium) ==
    IF ~DictHas(f.strategies, "Naked Short Call")
    THEN SetNakedShortCall(f, strike_price, premium)
    ELSE f

(* strategies["Covered Call"] = strategies["Long Stock"] + strategies["Naked Short Call"] *)
SetCoveredCall(f) ==
    Put(f, "Covered Call",
        NewArray(f.heap, ArraySum(f.heap[DictGet(f.strategies, "Long Stock")],
                                  f.heap[DictGet(f.strategies, "Naked Short Call")])))

(* if "Covered Call" in strategies_to_plot: ... *)
CoveredCallBlock(f, strike_price, premium, strategies_to_plot) ==
    IF InList("Covered Call", strategies_to_plot)
    THEN SetCoveredCall(EnsureNakedShortCall(EnsureLongStock(f), strike_price, premium))
    ELSE f

(* if "Naked Short Put" in strategies_to_plot: ... *)
NakedShortPutBlock(f, strike_price, premium, strategies_to_plot) ==
    IF InList("Naked Short Put", strategies_to_plot)
    THEN Put(f, "Naked Short Put",
             NewArray(f.heap, NakedShortPutPayoff(f.heap[f.stock_prices], strike_price, premium)))
    ELSE f

(* if "Cash Secured Put" in strategies_to_plot: ... *)
CashSecuredPutBlock(f, strike_price, premium, strategies_to_plot) ==
    IF InList("Cash Secured Put", strategies_to_plot)
    THEN Put(f, "Cash Secured Put",
             NewArray(f.heap, CashSecuredPutPayoff(f.heap[f.stock_prices], strike_price, premium)))
    ELSE f

(* Payoff calculations (per share): the five blocks, in the code's order. *)
ComputePayoffs(f, strike_price, premium, strategies_to_plot) ==
    CashSecuredPutBlock(
        NakedShortPutBlock(
            CoveredCallBlock(
                NakedShortCallBlock(
                    LongStockBlock(f, strategies_to_plot),
                    strike_price, premium, strategies_to_plot),
                strike_price, premium, strategies_to_plot),
            strike_price, premium, strategies_to_plot),
        strike_price, premium, strategies_to_plot)

(* Only the stock is converted: the covered call is forgotten. *)
ProfitStrategiesStockOnly == <<"Long Stock">>

(* The series the basis is subtracted from, in the code's order. *)
ProfitStrategies == <<"Long Stock", "Covered Call">>

(* if k in strategies: strategies[k] -= basis *)
SubBasis(f, k, basis) ==
    IF DictHas(f.strategies, k)
    THEN [f EXCEPT !.heap = ISub(f.heap, DictGet(f.strategies, k), Fx(basis))]
    ELSE f

RECURSIVE SubBasisAll(_, _, _, _)
SubBasisAll(f, names, i, basis) ==
    IF i > Len(names) THEN f
    ELSE SubBasisAll(SubBasis(f, names[i], basis), names, i + 1, basis)

(* Convert to profit if needed *)
ConvertToProfit(f, show_profit, basis) ==
    IF show_profit THEN SubBasisAll(f, ProfitStrategies, 1, basis) ELSE f

(* The contract of the axis label: 100 shares, whatever contract_size is. *)
ScaleFixed(per_share, contract_size) == IF per_share THEN 1 ELSE 100

(* scale = 1 if per_share else contract_size *)
Scale(per_share, contract_size) == IF per_share THEN 1 ELSE contract_size

(* for strategy in strategies: strategies[strategy] *= scale *)
RECURSIVE MulAll(_, _, _)
MulAll(f, i, scale) ==
    IF i > Len(f.strategies) THEN f
    ELSE MulAll([f EXCEPT !.heap = IMul(f.heap, f.strategies[i].arr, scale)], i + 1, scale)

(* Scale up to contract if needed *)
ScaleUp(f, per_share, contract_size) == MulAll(f, 1, Scale(per_share, contract_size))

(* The figure already on display, with its traces. *)
ReusedFigure(displayed) == displayed

(* fig = go.Figure() *)
NewFigure(displayed) == <<>>

(* for strategy, payoff in strategies.items(): fig.add_trace(go.Scatter(x=..., y=..., name=...)) *)
AddTraces(fig, f) ==
    fig \o [i \in 1..Len(f.strategies) |->
                [name |-> f.strategies[i].name,
                 x    |-> f.heap[f.stock_prices],
                 y    |-> f.heap[f.strategies[i].arr]]]

(* return fig: the figure, and the log of the call. *)
Return(f, displayed) ==
    [fig |-> AddTraces(NewFigure(displayed), f), grid |-> f.grid, value |-> f.value]

create_payoff_plot(strike_price, premium, basis, contract_size, per_share, show_profit, strategies_to_plot, displayed) ==
    Return(
        Logged(ScaleUp(
            Logged(ConvertToProfit(
                Logged(LoggedValue(ComputePayoffs(
                    Logged(GenerateGrid(strike_price)),
                    strike_price, premium, strategies_to_plot))),
                show_profit, basis)),
            per_share, contract_size)),
        displayed)

----------------------------------------------------------------------------
(* update_plot *)

(* strike_price < 0 instead of strike_price <= 0 *)
ValidateStrikeZero(strike_price, premium, basis, contract_size) ==
    IF IsNone(strike_price) THEN "TypeError"
    ELSE IF Val(strike_price) < 0 THEN "invalid"
    ELSE IF IsNone(premium) THEN "TypeError"
    ELSE IF Val(premium) < 0 THEN "invalid"
    ELSE IF IsNone(basis) THEN "TypeError"
    ELSE IF Val(basis) < 0 THEN "invalid"
    ELSE IF IsNone(contract_size) THEN "TypeError"
    ELSE IF Val(contract_size) <= 0 THEN "invalid"
    ELSE "ok"

(* strike_price <= 0 or premium < 0 or basis < 0 or contract_size <= 0,    *)
(* left to right; comparing None with a number raises TypeError.           *)
Validate(strike_price, premium, basis, contract_size) ==
    IF IsNone(strike_price) THEN "TypeError"
    ELSE IF Val(strike_price) <= 0 THEN "invalid"
    ELSE IF IsNone(premium) THEN "TypeError"
    ELSE IF Val(premium) < 0 THEN "invalid"
    ELSE IF IsNone(basis) THEN "TypeError"
    ELSE IF Val(basis) < 0 THEN "invalid"
    ELSE IF IsNone(contract_size) THEN "TypeError"
    ELSE IF Val(contract_size) <= 0 THEN "invalid"
    ELSE "ok"

(* What update_plot can hand back: a pane, or an exception that escapes it. *)
Markdown(text) == [kind |-> "Markdown", text |-> text, fig |-> <<>>]
Plotly(fig) == [kind |-> "Plotly", text |-> "", fig |-> fig]
Raised(e) == [kind |-> "Raised", text |-> e, fig |-> <<>>]
NoPane == [kind |-> "None", text |-> "", fig |-> <<>>]
NoCall == <<>>

(* The figure of the pane on display: module state, which a call could reach. *)
Displayed(p) == p.fig

(* return pn.pane.Plotly(fig, ...) *)
Called(c) == [pane |-> Plotly(c.fig), call |-> <<c>>]

(* The body of the try: the check of the values, then the call. *)
TryBody(strike_price, premium, basis, contract_size, per_share, show_profit, strategies_to_plot, displayed) ==
    CASE Validate(strike_price, premium, basis, contract_size) = "TypeError" ->
            [pane |-> Raised("TypeError"), call |-> NoCall]
      [] Validate(strike_price, premium, basis, contract_size) = "invalid" ->
            [pane |-> Markdown("All inputs must be positive."), call |-> NoCall]
      [] OTHER ->
            Called(create_payoff_plot(Val(strike_price), Val(premium), Val(basis),
                       Val(contract_size), per_share, show_profit,
                       strategies_to_plot, displayed))

(* except Exception as e: return pn.pane.Markdown(f"Error: {str(e)}") *)
ExceptException(r) ==
    IF r.pane.kind = "Raised" THEN [r EXCEPT !.pane = Markdown("Error: TypeError")] ELSE r

(* What update_plot returns, and the call of create_payoff_plot it made. *)
update_plot(strike_price, premium, basis, contract_size, per_share, show_profit, strategies_to_plot, displayed) ==
    IF strategies_to_plot = <<>>
    THEN [pane |-> Markdown("Please select at least one strategy to plot."), call |-> NoCall]
    ELSE ExceptException(
             TryBody(strike_price, premium, basis, contract_size, per_share, show_profit,
                     strategies_to_plot, displayed))

----------------------------------------------------------------------------
(* The dashboard.                                                          *)

Init ==
    /\ strike_price_input = Some(DefaultStrike)
    /\ premium_input = Some(DefaultPremium)
    /\ basis_input = Some(DefaultBasis)
    /\ contract_size_input = Some(DefaultContractSize)
    /\ per_share_input = TRUE
    /\ show_profit_input = TRUE
    /\ strategies_input = DefaultStrategies
    /\ pane = NoPane
    /\ call = NoCall
    /\ ref = <<>>

(* pn.depends: the dashboard calls update_plot with the widgets' values and *)
(* displays the pane it returns.  (ref is the history variable of the      *)
(* two-run claims: it notes that a computation ran after the recorded one.) *)
Refresh ==
    LET r == update_plot(strike_price_input', premium_input', basis_input',
                         contract_size_input', per_share_input', show_profit_input',
                         strategies_input', Displayed(pane))
    IN  /\ pane' = r.pane
        /\ call' = r.call
        /\ ref' = IF ref = <<>> THEN ref ELSE <<[ref[1] EXCEPT !.later = TRUE]>>

(* The dashboard is laid out: update_plot is rendered with the defaults. *)
InitialRender ==
    /\ pane = NoPane
    /\ UNCHANGED widgets
    /\ Refresh

(* The session the model explores: the user sets the strike before editing *)
(* the other numeric fields (the grid of the default strike has 211 points). *)
StrikeEdited == strike_price_input # Some(DefaultStrike)

SetStrike(S) ==
    /\ pane # NoPane
    /\ \E v \in S \ {strike_price_input} : strike_price_input' = v
    /\ UNCHANGED <<premium_input, basis_input, contract_size_input,
                   per_share_input, show_profit_input, strategies_input>>
    /\ Refresh

SetPremium(S) ==
    /\ pane # NoPane
    /\ StrikeEdited
    /\ \E v \in S \ {premium_input} : premium_input' = v
    /\ UNCHANGED <<strike_price_input, basis_input, contract_size_input,
                   per_share_input, show_profit_input, strategies_input>>
    /\ Refresh

SetBasis(S) ==
    /\ pane # NoPane
    /\ StrikeEdited
    /\ \E v \in S \ {basis_input} : basis_input' = v
    /\ UNCHANGED <<strike_price_input, premium_input, contract_size_input,
                   per_share_input, show_profit_input, strategies_input>>
    /\ Refresh

SetContractSize(S) ==
    /\ pane # NoPane
    /\ StrikeEdited
    /\ \E v \in S \ {contract_size_input} : contract_size_input' = v
    /\ UNCHANGED <<strike_price_input, premium_input, basis_input,
                   per_share_input, show_profit_input, strategies_input>>
    /\ Refresh

TogglePerShare ==
    /\ pane # NoPane
    /\ per_share_input' = ~per_share_input
    /\ UNCHANGED <<strike_price_input, premium_input, basis_input, contract_size_input,
                   show_profit_input, strategies_input>>
    /\ Refresh

ToggleShowProfit ==
    /\ pane # NoPane
    /\ show_profit_input' = ~show_profit_input
    /\ UNCHANGED <<strike_price_input, premium_input, basis_input, contract_size_input,
                   per_share_input, strategies_input>>
    /\ Refresh

(* MultiChoice: a chosen option is appended to the value.  R: the lists the *)
(* session explores.                                                       *)
SelectStrategy(R) ==
    /\ pane # NoPane
    /\ \E k \in Options :
          /\ ~InList(k, strategies_input)
          /\ Append(strategies_input, k) \in R
          /\ strategies_input' = Append(strategies_input, k)
    /\ UNCHANGED <<strike_price_input, premium_input, basis_input, contract_size_input,
                   per_share_input, show_profit_input>>
    /\ Refresh

(* MultiChoice: a removed option leaves the others in their order. *)
DeselectStrategy(R) ==
    /\ pane # NoPane
    /\ \E j \in 1..Len(strategies_input) :
          LET rest == [i \in 1..(Len(strategies_input) - 1) |->
                          IF i < j THEN strategies_input[i] ELSE strategies_input[i + 1]]
          IN  /\ rest \in R
              /\ strategies_input' = rest
    /\ UNCHANGED <<strike_price_input, premium_input, basis_input, contract_size_input,
                   per_share_input, show_profit_input>>
    /\ Refresh

(* The values typed in a session: for the strike and the contract size a   *)
(* cleared field or a number up to the bound, for the premium and the      *)
(* basis a negative number or zero (beside the defaults).                  *)
StrikeValues == {None} \cup {Some(v) : v \in 0..MaxStrike}
PremiumValues == {Some(-1), Some(0)}
BasisValues == {Some(-1), Some(0)}
ContractValues == {Some(v) : v \in 0..MaxContract}

(* The lists of distinct options of length n. *)
Lists(n) == {s \in [1..n -> Options] : \A i, j \in 1..n : i # j => s[i] # s[j]}

Requests == UNION {Lists(n) : n \in 0..MaxReq}

Next ==
    \/ InitialRender
    \/ SetStrike(StrikeValues)
    \/ SetPremium(PremiumValues)
    \/ SetBasis(BasisValues)
    \/ SetContractSize(ContractValues)
    \/ TogglePerShare
    \/ ToggleShowProfit
    \/ SelectStrategy(Requests)
    \/ DeselectStrategy(Requests)

Spec == Init /\ [][Next]_vars

----------------------------------------------------------------------------
(* Two computations: the history variable ref keeps the widgets and the    *)
(* output of one earlier computation.                                      *)

Record ==
    /\ pane # NoPane
    /\ ref = <<>>
    /\ ref' = <<[strike_price |-> strike_price_input, premium |-> premium_input,
                 basis |-> basis_input, contract_size |-> contract_size_input,
                 per_share |-> per_share_input, show_profit |-> show_profit_input,
                 strategies_to_plot |-> strategies_input,
                 pane |-> pane, later |-> FALSE]>>
    /\ UNCHANGED <<widgets, pane, call>>

HistStrikeValues == {Some(2)}
HistBasisValues == {Some(1)}
HistContractValues == {Some(v) : v \in 2..(MaxContract + 1)}
HistRequests ==
    {DefaultStrategies,
     <<"Long Stock", "Covered Call">>, <<"Covered Call", "Cash Secured Put">>,
     <<"Long Stock">>, <<"Covered Call">>, <<"Cash Secured Put">>,
     <<"Covered Call", "Long Stock">>, <<"Covered Call", "Naked Short Put">>,
     <<"Cash Secured Put", "Naked Short Put">>, <<"Long Stock", "Naked Short Call">>}

NextHist ==
    \/ InitialRender
    \/ SetStrike(HistStrikeValues)
    \/ SetBasis(HistBasisValues)
    \/ SetContractSize(HistContractValues)
    \/ TogglePerShare
    \/ ToggleShowProfit
    \/ SelectStrategy(HistRequests)
    \/ DeselectStrategy(HistRequests)
    \/ Record

SpecHist == Init /\ [][NextHist]_vars

----------------------------------------------------------------------------
(* What the claims speak of.                                               *)

Invoked == call # NoCall
Shown == pane.kind = "Plotly"
Requested(k) == InList(k, strategies_input)

strike_price == Val(strike_price_input)
premium == Val(premium_input)
basis == Val(basis_input)
contract_size == Val(contract_size_input)

(* The grid as generated, and the series before the profit and scale transforms. *)
Generated == call[1].grid[1]
HasValue(k) == \E i \in 1..Len(call[1].value) : call[1].value[i].name = k
Value(k) == call[1].value[CHOOSE i \in 1..Len(call[1].value) : call[1].value[i].name = k].y

(* The traces of a figure. *)
Names(fig) == [i \in 1..Len(fig) |-> fig[i].name]
HasTrace(fig, k) == \E i \in 1..Len(fig) : fig[i].name = k
Trace(fig, k) == fig[CHOOSE i \in 1..Len(fig) : fig[i].name = k]

(* C1. Covered call decomposition: whenever Covered Call is requested, its  *)
(* series before the profit and scale transforms is, at every grid index,  *)
(* the grid price plus the naked short call's pay-off (premium if the      *)
(* price is at most the strike, else premium - (price - strike)), whether  *)
(* or not Long Stock and Naked Short Call were themselves requested.       *)
CoveredCallDecomposition ==
    (Invoked /\ Requested("Covered Call")) =>
        /\ HasValue("Covered Call")
        /\ Len(Value("Covered Call")) = Len(Generated)
        /\ \A i \in 1..Len(Generated) :
              Value("Covered Call")[i] =
                  Generated[i] +
                  (IF Generated[i] <= Fx(strike_price)
                   THEN Fx(premium)
                   ELSE Fx(premium) - (Generated[i] - Fx(strike_price)))

(* Covered Call alone is requested, with a price above the strike and a premium. *)
CoveredCallWitness ==
    /\ Invoked
    /\ strategies_input = <<"Covered Call">>
    /\ premium > 0
    /\ \E i \in 1..Len(Generated) : Generated[i] > Fx(strike_price)
    /\ \E i \in 1..Len(Generated) : Generated[i] < Fx(strike_price)

(* The recorded computation and the one on display had the same widget     *)
(* values, but for show_profit and per_share.                              *)
SameButFlags ==
    /\ ref # <<>>
    /\ ref[1].strike_price = strike_price_input
    /\ ref[1].premium = premium_input
    /\ ref[1].basis = basis_input
    /\ ref[1].contract_size = contract_size_input
    /\ ref[1].strategies_to_plot = strategies_input
    /\ ref[1].pane.kind = "Plotly"
    /\ Shown

(* figP is figV with basis subtracted from Long Stock and Covered Call. *)
ProfitOffsetOf(figP, figV) ==
    /\ Names(figP) = Names(figV)
    /\ \A t \in 1..Len(figV) :
          /\ Len(figP[t].y) = Len(figV[t].y)
          /\ \A i \in 1..Len(figV[t].y) :
                figP[t].y[i] =
                    IF figV[t].name \in {"Long Stock", "Covered Call"}
                    THEN figV[t].y[i] - Fx(basis)
                    ELSE figV[t].y[i]

(* C2. Profit offset: two per-share computations that differ in show_profit *)
(* only: with show_profit the Long Stock and the Covered Call series are   *)
(* the ones without it minus basis at every index (once for Covered Call,  *)
(* also when Long Stock is only an intermediate), and the Naked Short      *)
(* Call, Naked Short Put and Cash Secured Put series are the same.         *)
ProfitOffset ==
    (/\ SameButFlags
     /\ per_share_input /\ ref[1].per_share
     /\ ref[1].show_profit # show_profit_input) =>
        IF show_profit_input
        THEN ProfitOffsetOf(pane.fig, ref[1].pane.fig)
        ELSE ProfitOffsetOf(ref[1].pane.fig, pane.fig)

(* Covered Call without Long Stock, a basis, computed with and without show_profit. *)
ProfitOffsetWitness ==
    /\ SameButFlags
    /\ per_share_input /\ ref[1].per_share
    /\ ref[1].show_profit # show_profit_input
    /\ basis > 0
    /\ Requested("Covered Call") /\ ~Requested("Long Stock")
    /\ HasTrace(pane.fig, "Long Stock")
    /\ HasTrace(pane.fig, "Cash Secured Put")

(* figC is figS times contract_size. *)
ScaledOf(figC, figS) ==
    /\ Names(figC) = Names(figS)
    /\ \A t \in 1..Len(figS) :
          /\ Len(figC[t].y) = Len(figS[t].y)
          /\ \A i \in 1..Len(figS[t].y) : figC[t].y[i] = contract_size * figS[t].y[i]

(* C3. Scale linearity: two computations that differ in per_share only:    *)
(* every value per contract is contract_size times the value per share,    *)
(* for every strategy of the output and every index (the scale comes       *)
(* after the profit subtraction: in profit mode the Long Stock and         *)
(* Covered Call values per contract are contract_size * (value - basis)).  *)
ScaleLinearity ==
    /\ (/\ SameButFlags
        /\ ref[1].show_profit = show_profit_input
        /\ ref[1].per_share # per_share_input) =>
           IF per_share_input
           THEN ScaledOf(ref[1].pane.fig, pane.fig)
           ELSE ScaledOf(pane.fig, ref[1].pane.fig)
    /\ (Shown /\ ~per_share_input /\ show_profit_input) =>
           \A t \in 1..Len(pane.fig) :
               pane.fig[t].name \in {"Long Stock", "Covered Call"} =>
                   \A i \in 1..Len(pane.fig[t].y) :
                       pane.fig[t].y[i] =
                           contract_size * (Value(pane.fig[t].name)[i] - Fx(basis))

(* In profit mode, a contract size other than 1 and 100, Long Stock in the output. *)
ScaleLinearityWitness ==
    /\ SameButFlags
    /\ ref[1].show_profit = show_profit_input
    /\ ref[1].per_share # per_share_input
    /\ show_profit_input
    /\ basis > 0
    /\ contract_size > 1 /\ contract_size # 100
    /\ HasTrace(pane.fig, "Long Stock")
    /\ HasTrace(pane.fig, "Covered Call")

(* C4, as stated. Grid bounds: the grid is non-empty, starts at 0.75 s,    *)
(* has step 1.0, and its last element is >= 1.25 s and < 1.25 s + 1.0.     *)
GridBoundsAsStated ==
    Invoked =>
        /\ Len(Generated) >= 1
        /\ Generated[1] = 75 * strike_price
        /\ \A i \in 1..(Len(Generated) - 1) : Generated[i + 1] - Generated[i] = 100
        /\ Generated[Len(Generated)] >= 125 * strike_price
        /\ Generated[Len(Generated)] < 125 * strike_price + 100

(* C4, amended. Grid bounds: the grid is non-empty, starts at 0.75 s, has  *)
(* step 1.0, and its last element is > 1.25 s - 1.0 and < 1.25 s + 0.01    *)
(* (so < 1.25 s + 1.0); the last element is 1.25 s when 0.5 s is a whole   *)
(* number, and 1.25 s - 0.5 for an odd whole strike.                       *)
GridBounds ==
    Invoked =>
        /\ Len(Generated) >= 1
        /\ Generated[1] = 75 * strike_price
        /\ \A i \in 1..(Len(Generated) - 1) : Generated[i + 1] - Generated[i] = 100
        /\ Generated[Len(Generated)] > 125 * strike_price - 100
        /\ Generated[Len(Generated)] < 125 * strike_price + 1
        /\ (strike_price % 2 = 0) => (Generated[Len(Generated)] = 125 * strike_price)
        /\ (strike_price % 2 = 1) => (Generated[Len(Generated)] = 125 * strike_price - 50)

(* An even strike, whose upper bound is on the grid, with several points. *)
GridBoundsWitness ==
    /\ Invoked
    /\ strike_price % 2 = 0
    /\ Len(Generated) >= 2
    /\ Generated[Len(Generated)] = 125 * strike_price

(* C5. Intermediates are not exposed: the names of the output are exactly  *)
(* the options the caller requested.                                       *)
IntermediatesNotExposed ==
    Shown => {pane.fig[i].name : i \in 1..Len(pane.fig)} = {k \in Options : Requested(k)}

(* C6, as stated. Output ordering: two requested strategies appear in the  *)
(* output in the order in which the caller listed them.                    *)
OutputOrderAsRequested ==
    Shown =>
        \A i, j \in 1..Len(strategies_input) :
            (i < j) =>
                \A m, n \in 1..Len(pane.fig) :
                    (pane.fig[m].name = strategies_input[i] /\
                     pane.fig[n].name = strategies_input[j]) => m < n

(* The place of a name in the order in which the code's blocks insert:   *)
(* Long Stock and Naked Short Call by their own block when requested, by   *)
(* the Covered Call block, just before Covered Call, when not.             *)
InsertionRank(k) ==
    CASE k = "Long Stock" -> IF Requested("Long Stock") THEN 1 ELSE 3
      [] k = "Naked Short Call" -> IF Requested("Naked Short Call") THEN 2 ELSE 4
      [] k = "Covered Call" -> 5
      [] k = "Naked Short Put" -> 6
      [] k = "Cash Secured Put" -> 7

(* C6, amended. Output ordering: the names of the output are in the order  *)
(* in which the code inserts them, whatever the order in which the caller  *)
(* listed them: Long Stock, Naked Short Call (each when requested), then   *)
(* for Covered Call the two of them that were not requested and Covered    *)
(* Call, then Naked Short Put, then Cash Secured Put.                      *)
OutputOrderFixed ==
    Shown =>
        \A m, n \in 1..Len(pane.fig) :
            (m < n) => InsertionRank(pane.fig[m].name) < InsertionRank(pane.fig[n].name)

(* The caller lists Covered Call before Naked Short Call. *)
OutputOrderWitness ==
    /\ Shown
    /\ strategies_input = <<"Covered Call", "Naked Short Call">>
    /\ Names(pane.fig) = <<"Naked Short Call", "Long Stock", "Covered Call">>

(* An input that update_plot turns away. *)
Rejected ==
    \/ strategies_input = <<>>
    \/ ~IsNone(strike_price_input) /\ strike_price <= 0
    \/ ~IsNone(premium_input) /\ premium < 0
    \/ ~IsNone(basis_input) /\ basis < 0
    \/ ~IsNone(contract_size_input) /\ contract_size <= 0

(* C7. Validation guard: create_payoff_plot is invoked only for a          *)
(* non-empty list with strike > 0, premium >= 0, basis >= 0 and            *)
(* contract_size > 0; for an empty list, strike <= 0, premium < 0,         *)
(* basis < 0 or contract_size <= 0 update_plot returns a message pane and  *)
(* no plot; and no exception escapes update_plot.                          *)
ValidationGuard ==
    /\ Invoked =>
          /\ strategies_input # <<>>
          /\ ~IsNone(strike_price_input) /\ strike_price > 0
          /\ ~IsNone(premium_input) /\ premium >= 0
          /\ ~IsNone(basis_input) /\ basis >= 0
          /\ ~IsNone(contract_size_input) /\ contract_size > 0
    /\ (pane # NoPane /\ Rejected) => (pane.kind = "Markdown" /\ ~Invoked)
    /\ Shown => Invoked
    /\ pane.kind # "Raised"

(* A strike of 0 is turned away with the message. *)
ValidationGuardWitness ==
    /\ pane = Markdown("All inputs must be positive.")
    /\ strike_price_input = Some(0)
    /\ strategies_input # <<>>
    /\ ~Invoked

(* C8. Put/call symmetry at the strike: at a grid index whose price is the *)
(* strike, Naked Short Call, Naked Short Put and Cash Secured Put are      *)
(* premium * scale (1 per share, else contract_size), whatever show_profit *)
(* and basis are; and Cash Secured Put is Naked Short Put at every index.  *)
SymmetryAtStrike ==
    Shown =>
        /\ \A t \in 1..Len(pane.fig) :
              pane.fig[t].name \in {"Naked Short Call", "Naked Short Put", "Cash Secured Put"} =>
                  \A i \in 1..Len(pane.fig[t].x) :
                      pane.fig[t].x[i] = Fx(strike_price) =>
                          pane.fig[t].y[i] =
                              Fx(premium) * (IF per_share_input THEN 1 ELSE contract_size)
        /\ (HasTrace(pane.fig, "Naked Short Put") /\ HasTrace(pane.fig, "Cash Secured Put")) =>
              Trace(pane.fig, "Cash Secured Put").y = Trace(pane.fig, "Naked Short Put").y

(* Both puts per contract, the strike on the grid, prices on both sides of it. *)
SymmetryAtStrikeWitness ==
    /\ Shown
    /\ HasTrace(pane.fig, "Naked Short Put")
    /\ HasTrace(pane.fig, "Cash Secured Put")
    /\ ~per_share_input
    /\ contract_size > 1
    /\ premium > 0
    /\ \E i \in 1..Len(pane.fig[1].x) : pane.fig[1].x[i] = Fx(strike_price)
    /\ \E i \in 1..Len(pane.fig[1].x) : pane.fig[1].x[i] > Fx(strike_price)

(* The recorded computation had the widget values of the one on display. *)
SameInputs ==
    /\ ref # <<>>
    /\ ref[1].strike_price = strike_price_input
    /\ ref[1].premium = premium_input
    /\ ref[1].basis = basis_input
    /\ ref[1].contract_size = contract_size_input
    /\ ref[1].per_share = per_share_input
    /\ ref[1].show_profit = show_profit_input
    /\ ref[1].strategies_to_plot = strategies_input

(* C9. Independence of computations: two computations with the same        *)
(* inputs return the same output (the same pane: the same grid and the     *)
(* same series for every strategy), whatever computations ran in between.  *)
Idempotence == SameInputs => pane = ref[1].pane

(* The recorded inputs are computed again after other computations. *)
IdempotenceWitness ==
    /\ SameInputs
    /\ ref[1].later
    /\ Shown
    /\ strike_price # DefaultStrike

(* C10. The price grid is read-only: after its generation, the pay-off     *)
(* calculations, the profit subtraction and the scaling leave every        *)
(* element of the grid as generated, and the x-values of every trace are   *)
(* the grid as generated.                                                  *)
GridReadOnly ==
    Invoked =>
        /\ \A k \in 2..Len(call[1].grid) : call[1].grid[k] = Generated
        /\ \A t \in 1..Len(pane.fig) : pane.fig[t].x = Generated

(* Long Stock requested, a basis subtracted and a contract size applied. *)
GridReadOnlyWitness ==
    /\ Invoked
    /\ Requested("Long Stock")
    /\ show_profit_input /\ basis > 0
    /\ ~per_share_input /\ contract_size > 1
    /\ strike_price # DefaultStrike

====
